---- MODULE Spec2Model ----
(***************************************************************************)
(* Employee directory front end: the data-synchronisation code of the      *)
(* four store variants that live in the repository, against a remote       *)
(* collection endpoint.                                                     *)
(*                                                                         *)
(*   M  src/src/components/EmployeeManagement.tsx  (re-fetch after write)  *)
(*      with src/src/components/EmployeeForm.tsx and the EmployeeTable of  *)
(*      src/src/components/EmployeeTable.tsx                               *)
(*   T  useEmployees / App of src/src/components/EmployeeTable.tsx         *)
(*      (re-fetch after write, not awaited)                                *)
(*   H  src/unnamed/part_001  (useEmployees with wrap, patches locally)    *)
(*   L  src/unnamed/part_000  (mock data, timers instead of requests)      *)
(*                                                                         *)
(* Strings on which the code does character work (trim, the email          *)
(* pattern) are sequences of one-character strings.                        *)
(***************************************************************************)
EXTENDS Integers, Sequences, FiniteSets, TLC

VARIABLES
  variant,      \* which page runs: "M", "T", "H", "L" or "D" (dashboard)
  idScheme,     \* how the remote service assigns ids: "serial" or "email"
  remote,       \* the remote collection (server side), in server order
  nextId,       \* the remote service's serial id counter / L's clock
  employees,    \* the local collection (useState employees)
  loading,      \* isLoading / loading
  error,        \* useEmployees' error ("" is null)
  toast,        \* the toast() calls of the last step, in order
  dialogOpen,   \* isFormOpen / dialogOpen
  current,      \* editingEmployee / currentEmployee (<<>> is null)
  form,         \* the form component's formData / form
  formErrors,   \* EmployeeForm.tsx errors: the fields flagged
  delOpen,      \* deleteDialogOpen / deleteDialog.open
  delTarget,    \* employeeToDelete / deleteDialog.{email,name} (<<>> is null)
  deletingId,   \* EmployeeTable deletingId (<<>> is null)
  searchTerm,   \* the search box
  departmentFilter, \* the department select ('all' shows every department)
  reqs,         \* requests (or timers) in flight
  nOps,         \* operations the user has started so far
  last,         \* what the last step was
  details       \* the dashboard page's details (<<>> is null)

vars == <<details, variant, idScheme, remote, nextId, employees, loading, error, toast,
          dialogOpen, current, form, formErrors, delOpen, delTarget,
          deletingId, searchTerm, departmentFilter, reqs, nOps, last>>

----------------------------------------------------------------------------
(* Bounds *)

MaxOps == 2

MaxRemote == 2

\* the clock readings of the mock-data page stop here
MaxNow == 7

----------------------------------------------------------------------------
(* Strings *)

E1 == <<"a", "@", "b", ".", "c">>

E2 == <<"d", "@", "b", ".", "c">>

BadEmail == <<"a", "@", "b">>

NameA == <<"A">>

NameB == <<"B">>

Blank == <<" ">>

RoleR == <<"r">>

NoId == <<>>

IsSpace(c) == c = " "

RECURSIVE TrimStart(_)
TrimStart(s) ==
  IF s # <<>> /\ IsSpace(Head(s)) THEN TrimStart(Tail(s)) ELSE s

RECURSIVE TrimEnd(_)
TrimEnd(s) ==
  IF s # <<>> /\ IsSpace(s[Len(s)]) THEN TrimEnd(SubSeq(s, 1, Len(s) - 1)) ELSE s

\* String.prototype.trim
Trim(s) == TrimEnd(TrimStart(s))

\* one or more characters of [^\s@]
NoSpaceAt(s) ==
  /\ s # <<>>
  /\ \A k \in 1..Len(s) : ~IsSpace(s[k]) /\ s[k] # "@"

\* /^[^\s@]+@[^\s@]+\.[^\s@]+$/.test(s)
EmailPattern(s) ==
  \E i \in 1..Len(s) : \E j \in 1..Len(s) :
    /\ i < j
    /\ s[i] = "@"
    /\ s[j] = "."
    /\ NoSpaceAt(SubSeq(s, 1, i - 1))
    /\ NoSpaceAt(SubSeq(s, i + 1, j - 1))
    /\ NoSpaceAt(SubSeq(s, j + 1, Len(s)))

Digit == <<<<"1">>, <<"2">>, <<"3">>, <<"4">>, <<"5">>, <<"6">>, <<"7">>, <<"8">>, <<"9">>>>

\* Number.prototype.toString for the small numbers used as ids
IdStr(n) == Digit[n]

\* JavaScript truthiness of an id (0, '' and undefined are falsy)
Truthy(id) == id # NoId

----------------------------------------------------------------------------
(* Records *)

\* the form's blank value: { name: '', email: '', department: '', role: '' }
BlankForm ==
  [id |-> NoId, name |-> <<>>, email |-> <<>>, department |-> "", role |-> <<>>]

Good(n, e) ==
  [id |-> NoId, name |-> n, email |-> e, department |-> "Engineering", role |-> RoleR]

\* what the user may type into the form
FormInputs ==
  { Good(NameA, E1), Good(NameA, E2), Good(NameB, E1),
    [Good(NameA, E1) EXCEPT !.name = <<>>],
    [Good(NameA, E1) EXCEPT !.name = Blank],
    [Good(NameA, E1) EXCEPT !.email = <<>>],
    [Good(NameA, E1) EXCEPT !.email = BadEmail],
    [Good(NameA, E1) EXCEPT !.department = ""],
    [Good(NameA, E1) EXCEPT !.role = <<>>] }

\* what the user types where the form does not validate
LooseInputs ==
  { Good(NameA, E2), Good(NameB, E1),
    [Good(NameA, E1) EXCEPT !.name = <<>>] }

WithId(f, id) == [f EXCEPT !.id = id]

\* no toast() call in the step
NoToast == <<>>

\* one toast({ variant, title, description }) call
Toast(v, t, d) == <<[variant |-> v, title |-> t, text |-> d]>>

\* what a step was: the operation that resolved ("step" when none did),
\* whether it reported success, and how the collection fetch in it went
Ev(k, ok) == [kind |-> k, ok |-> ok, load |-> "none", how |-> "none"]

EvLoad(k, ok, loaded) ==
  [kind |-> k, ok |-> ok, load |-> IF loaded THEN "ok" ELSE "fail", how |-> "none"]

\* a request in flight
Req(id, m, key, body, origin, ctx) ==
  [id |-> id, method |-> m, key |-> key, body |-> body, origin |-> origin,
   ctx |-> ctx, stage |-> "sent", resp |-> <<>>]

Emails(seq) == { seq[k].email : k \in 1..Len(seq) }

\* seq.find(emp => emp.id === id): the first match (<<>> is undefined)
FindById(seq, id) ==
  IF \E k \in 1..Len(seq) : seq[k].id = id
  THEN <<seq[CHOOSE k \in 1..Len(seq) :
               seq[k].id = id /\ \A j \in 1..(k - 1) : seq[j].id # id]>>
  ELSE <<>>

NoError == <<>>

\* the request r of reqs replaced by q
Replace(r, q) == (reqs \ {r}) \cup {q}

\* the user starts an operation: its request is issued
Issue(m, key, body, origin, ctx) ==
  /\ nOps < MaxOps
  /\ nOps' = nOps + 1
  /\ reqs' = reqs \cup {Req(nOps + 1, m, key, body, origin, ctx)}

\* the request r has resolved and its operation issues the next one
Reissue(r, m, key, body, origin, ctx) ==
  /\ nOps' = nOps
  /\ reqs' = (reqs \ {r}) \cup {Req(r.id, m, key, body, origin, ctx)}

\* a request that has no 2xx answer when it resolves has failed
Failed(r) == r.stage = "sent"

\* how a request can fail: a non-2xx answer with or without a body, or no answer
Failures == {"httpBody", "httpEmpty", "net"}

\* the step e ended the request r; how: the way r failed, if it did
EvHow(e, r, how) == [e EXCEPT !.how = IF Failed(r) THEN how ELSE "none"]

----------------------------------------------------------------------------
(* The remote directory service (spec section 6): GET /collection,          *)
(* POST /collection, PUT /collection/{email}, DELETE /collection/{email}.   *)

\* the record the service stores for a request body
Stored(id, body) ==
  [id |-> id, name |-> body.name, email |-> body.email,
   department |-> body.department, role |-> body.role]

NewId(body) == IF idScheme = "email" THEN body.email ELSE IdStr(nextId)

\* whether the service can answer the request with a 2xx
CanServe(r) ==
  CASE r.method = "GET" -> TRUE
    [] r.method = "POST" ->
         Len(remote) < MaxRemote /\ r.body.email \notin Emails(remote)
    [] r.method = "PUT" ->
         /\ r.key \in Emails(remote)
         /\ r.body.email = r.key \/ r.body.email \notin Emails(remote)
    [] r.method = "DELETE" -> r.key \in Emails(remote)

\* the collection after a 2xx answer to the request
Served(r) ==
  CASE r.method = "GET" -> remote
    [] r.method = "POST" -> Append(remote, Stored(NewId(r.body), r.body))
    [] r.method = "PUT" ->
         [k \in 1..Len(remote) |->
            IF remote[k].email = r.key THEN Stored(remote[k].id, r.body)
            ELSE remote[k]]
    [] r.method = "DELETE" -> SelectSeq(remote, LAMBDA e : e.email # r.key)

\* the body of a 2xx answer
Answer(r) ==
  CASE r.method = "GET" -> remote
    [] r.method = "POST" -> <<Stored(NewId(r.body), r.body)>>
    [] r.method = "PUT" ->
         SelectSeq(Served(r), LAMBDA e : e.email = r.body.email)
    [] r.method = "DELETE" -> <<>>

\* the service answers a request with a 2xx
ServerHandle(r) ==
  /\ r.stage = "sent"
  /\ r.method # "TIMER"
  /\ CanServe(r)
  /\ remote' = Served(r)
  /\ nextId' = IF r.method = "POST" /\ idScheme = "serial"
               THEN nextId + 1 ELSE nextId
  /\ reqs' = Replace(r, [r EXCEPT !.stage = "ok", !.resp = Answer(r)])
  /\ last' = Ev("step", TRUE)
  /\ toast' = NoToast
  /\ UNCHANGED <<searchTerm, departmentFilter, details, variant, idScheme, employees, loading, error, dialogOpen,
                 current, form, formErrors, delOpen, delTarget, deletingId, nOps>>

Server == \E r \in reqs : ServerHandle(r)

\* the collections the service may hold when the page is opened
R1 == Stored(IF idScheme = "email" THEN E1 ELSE IdStr(1), Good(NameA, E1))

InitialRemotes == {<<>>, <<R1>>}

\* the state once the page has mounted: the mount effect's fetch is in flight
MountedInit ==
  /\ details = <<>>
  /\ remote \in InitialRemotes
  /\ nextId = Len(remote) + 1
  /\ employees = <<>>
  /\ loading = TRUE
  /\ error = NoError
  /\ toast = NoToast
  /\ dialogOpen = FALSE
  /\ current = <<>>
  /\ form = BlankForm
  /\ formErrors = {}
  /\ delOpen = FALSE
  /\ deletingId = <<>>
  /\ searchTerm = <<>>
  /\ departmentFilter = "all"
  /\ reqs = {Req(0, "GET", <<>>, BlankForm, "mount", <<>>)}
  /\ nOps = 0
  /\ last = Ev("init", TRUE)

----------------------------------------------------------------------------
(* H: src/unnamed/part_001 *)

\* `Failed to ... (${res.status}): ${errorData || res.statusText}`, or the
\* message of the error fetch rejected with
H_message(what, how) ==
  CASE how = "net" -> <<"Failed to fetch">>
    [] how = "httpBody" -> <<what, "body">>
    [] how = "httpEmpty" -> <<what, "statusText">>

\* what a step of the view leaves alone
ViewUnchanged ==
  /\ toast' = NoToast
  /\ last' = Ev("step", TRUE)
  /\ UNCHANGED <<searchTerm, departmentFilter, details, variant, idScheme, remote, nextId, employees, loading, error,
                 formErrors, reqs, nOps>>

\* fetchEmployees keeping the entries it held: setEmployees(prev => [...prev, ...data])
H_fetchEmployees_keep(r, how) ==
  /\ variant = "H"
  /\ r.method = "GET"
  /\ IF Failed(r)
     THEN /\ error' = H_message("Failed to fetch employees", how)
          /\ toast' = Toast("destructive", "Fetch Failed", error')
          /\ UNCHANGED employees
     ELSE /\ employees' = employees \o r.resp
          /\ toast' = NoToast
          /\ UNCHANGED error
  /\ loading' = FALSE
  /\ reqs' = reqs \ {r}
  /\ last' = EvHow(EvLoad("load", ~Failed(r), ~Failed(r)), r, how)
  /\ UNCHANGED <<searchTerm, departmentFilter, details, variant, idScheme, remote, nextId, dialogOpen, current, form,
                 formErrors, delOpen, delTarget, deletingId, nOps>>

\* useEmployees.fetchEmployees, from the response on
\* fetchEmployees clearing the loading flag in the try block only
H_fetchEmployees_stuck(r, how) ==
  /\ variant = "H"
  /\ r.method = "GET"
  /\ IF Failed(r)
     THEN /\ error' = H_message("Failed to fetch employees", how)
          /\ toast' = Toast("destructive", "Fetch Failed", error')
          /\ UNCHANGED <<employees, loading>>
     ELSE /\ employees' = r.resp
          /\ toast' = NoToast
          /\ loading' = FALSE
          /\ UNCHANGED error
  /\ reqs' = reqs \ {r}
  /\ last' = EvHow(EvLoad("load", ~Failed(r), ~Failed(r)), r, how)
  /\ UNCHANGED <<searchTerm, departmentFilter, details, variant, idScheme, remote, nextId, dialogOpen, current, form,
                 formErrors, delOpen, delTarget, deletingId, nOps>>

H_fetchEmployees(r, how) ==
  /\ variant = "H"
  /\ r.method = "GET"
  /\ IF Failed(r)
     THEN /\ error' = H_message("Failed to fetch employees", how)
          /\ toast' = Toast("destructive", "Fetch Failed", error')
          /\ UNCHANGED employees
     ELSE /\ employees' = r.resp
          /\ toast' = NoToast
          /\ UNCHANGED error
  /\ loading' = FALSE
  /\ reqs' = reqs \ {r}
  /\ last' = EvHow(EvLoad("load", ~Failed(r), ~Failed(r)), r, how)
  /\ UNCHANGED <<searchTerm, departmentFilter, details, variant, idScheme, remote, nextId, dialogOpen, current, form,
                 formErrors, delOpen, delTarget, deletingId, nOps>>

\* useEmployees.wrap, the catch branch
H_wrapCatch(what, how) ==
  /\ error' = H_message(what, how)
  /\ toast' = Toast("destructive", "Error", error')

\* useEmployees.wrap, the success branch
H_wrapOk(successMessage) ==
  /\ toast' = Toast("default", "Success", <<successMessage>>)
  /\ UNCHANGED error

\* addEmployee putting the submitted record in the list before the answer is known
H_addEmployee_optimistic(r, how) ==
  /\ variant = "H"
  /\ r.method = "POST"
  /\ IF Failed(r)
     THEN /\ H_wrapCatch("Failed to add employee", how)
          /\ employees' = Append(employees, r.body)
          /\ UNCHANGED <<dialogOpen, current, form>>
     ELSE /\ employees' = employees \o r.resp
          /\ H_wrapOk("Employee added successfully")
          /\ dialogOpen' = FALSE
          /\ current' = <<>>
          /\ form' = BlankForm
  /\ reqs' = reqs \ {r}
  /\ last' = EvHow(Ev("add", ~Failed(r)), r, how)
  /\ UNCHANGED <<searchTerm, departmentFilter, details, variant, idScheme, remote, nextId, loading, formErrors,
                 delOpen, delTarget, deletingId, nOps>>

\* useEmployees.addEmployee and handleSave's continuation, from the response on
H_addEmployee(r, how) ==
  /\ variant = "H"
  /\ r.method = "POST"
  /\ IF Failed(r)
     THEN /\ H_wrapCatch("Failed to add employee", how)
          /\ UNCHANGED <<employees, dialogOpen, current, form>>
     ELSE /\ employees' = employees \o r.resp
          /\ H_wrapOk("Employee added successfully")
          /\ dialogOpen' = FALSE
          /\ current' = <<>>
          /\ form' = BlankForm
  /\ reqs' = reqs \ {r}
  /\ last' = EvHow(Ev("add", ~Failed(r)), r, how)
  /\ UNCHANGED <<searchTerm, departmentFilter, details, variant, idScheme, remote, nextId, loading, formErrors,
                 delOpen, delTarget, deletingId, nOps>>

\* useEmployees.updateEmployee and handleSave's continuation, from the response on
\* an operation started after r has already completed
LaterCompleted(r) ==
  \E i \in (r.id + 1)..nOps : \A q \in reqs : q.id # i

\* updateEmployee dropping a response that arrives after a later operation's
H_updateEmployee_ordered(r, how) ==
  /\ variant = "H"
  /\ r.method = "PUT"
  /\ IF Failed(r)
     THEN /\ H_wrapCatch("Failed to update employee", how)
          /\ UNCHANGED <<employees, dialogOpen, current, form>>
     ELSE /\ employees' = [k \in 1..Len(employees) |->
                             IF employees[k].email = r.body.email /\ ~LaterCompleted(r)
                             THEN r.resp[1] ELSE employees[k]]
          /\ H_wrapOk("Employee updated successfully")
          /\ dialogOpen' = FALSE
          /\ current' = <<>>
          /\ form' = BlankForm
  /\ reqs' = reqs \ {r}
  /\ last' = EvHow(Ev("update", ~Failed(r)), r, how)
  /\ UNCHANGED <<searchTerm, departmentFilter, details, variant, idScheme, remote, nextId, loading, formErrors,
                 delOpen, delTarget, deletingId, nOps>>

H_updateEmployee(r, how) ==
  /\ variant = "H"
  /\ r.method = "PUT"
  /\ IF Failed(r)
     THEN /\ H_wrapCatch("Failed to update employee", how)
          /\ UNCHANGED <<employees, dialogOpen, current, form>>
     ELSE /\ employees' = [k \in 1..Len(employees) |->
                             IF employees[k].email = r.body.email
                             THEN r.resp[1] ELSE employees[k]]
          /\ H_wrapOk("Employee updated successfully")
          /\ dialogOpen' = FALSE
          /\ current' = <<>>
          /\ form' = BlankForm
  /\ reqs' = reqs \ {r}
  /\ last' = EvHow(Ev("update", ~Failed(r)), r, how)
  /\ UNCHANGED <<searchTerm, departmentFilter, details, variant, idScheme, remote, nextId, loading, formErrors,
                 delOpen, delTarget, deletingId, nOps>>

\* deleteEmployee removing the row whatever the answer
H_deleteEmployee_optimistic(r, how) ==
  /\ variant = "H"
  /\ r.method = "DELETE"
  /\ employees' = SelectSeq(employees, LAMBDA e : e.email # r.key)
  /\ IF Failed(r)
     THEN /\ H_wrapCatch("Failed to delete employee", how)
          /\ UNCHANGED <<delOpen, delTarget>>
     ELSE /\ H_wrapOk("Employee deleted successfully")
          /\ delOpen' = FALSE
          /\ delTarget' = <<BlankForm>>
  /\ reqs' = reqs \ {r}
  /\ last' = EvHow(Ev("delete", ~Failed(r)), r, how)
  /\ UNCHANGED <<searchTerm, departmentFilter, details, variant, idScheme, remote, nextId, loading, dialogOpen, current,
                 form, formErrors, deletingId, nOps>>

\* useEmployees.deleteEmployee and handleDeleteExecute's continuation
H_deleteEmployee(r, how) ==
  /\ variant = "H"
  /\ r.method = "DELETE"
  /\ IF Failed(r)
     THEN /\ H_wrapCatch("Failed to delete employee", how)
          /\ UNCHANGED <<employees, delOpen, delTarget>>
     ELSE /\ employees' = SelectSeq(employees, LAMBDA e : e.email # r.key)
          /\ H_wrapOk("Employee deleted successfully")
          /\ delOpen' = FALSE
          /\ delTarget' = <<BlankForm>>
  /\ reqs' = reqs \ {r}
  /\ last' = EvHow(Ev("delete", ~Failed(r)), r, how)
  /\ UNCHANGED <<searchTerm, departmentFilter, details, variant, idScheme, remote, nextId, loading, dialogOpen, current,
                 form, formErrors, deletingId, nOps>>

\* the Add Employee button: setDialogOpen(true); the form mounts with
\* employee ?? { id: 0, name: '', email: '', role: '', status: 'Active' }
H_AddClick ==
  /\ variant = "H"
  /\ ~dialogOpen /\ ~delOpen
  /\ dialogOpen' = TRUE
  /\ form' = IF current = <<>> THEN BlankForm ELSE current[1]
  /\ UNCHANGED <<current, delOpen, delTarget, deletingId>>
  /\ ViewUnchanged

\* EmployeeTable onEdit
H_onEdit(k) ==
  /\ variant = "H"
  /\ ~loading /\ ~dialogOpen /\ ~delOpen
  /\ current' = <<employees[k]>>
  /\ dialogOpen' = TRUE
  /\ form' = employees[k]
  /\ UNCHANGED <<delOpen, delTarget, deletingId>>
  /\ ViewUnchanged

\* Dialog onOpenChange(false): setDialogOpen(false); the form unmounts
H_onOpenChange ==
  /\ variant = "H"
  /\ dialogOpen
  /\ dialogOpen' = FALSE
  /\ form' = BlankForm
  /\ UNCHANGED <<current, delOpen, delTarget, deletingId>>
  /\ ViewUnchanged

\* EmployeeForm onCancel
H_onCancel ==
  /\ variant = "H"
  /\ dialogOpen
  /\ dialogOpen' = FALSE
  /\ current' = <<>>
  /\ form' = BlankForm
  /\ UNCHANGED <<delOpen, delTarget, deletingId>>
  /\ ViewUnchanged

\* EmployeeForm.handleChange (the user types f over the form's fields), then
\* handleSubmit -> handleSave, up to the request
H_handleSave(f) ==
  /\ variant = "H"
  /\ dialogOpen
  /\ LET emp == WithId(f, form.id)
     IN IF Truthy(emp.id)
        THEN Issue("PUT", emp.email, emp, "save", <<>>)
        ELSE Issue("POST", <<>>, emp, "save", <<>>)
  /\ last' = Ev("submit", TRUE)
  /\ toast' = NoToast
  /\ UNCHANGED <<searchTerm, departmentFilter, details, variant, idScheme, remote, nextId, employees, loading, error,
                 dialogOpen, current, form, formErrors, delOpen, delTarget,
                 deletingId>>

\* the Delete button calling deleteEmployee at once, with no dialog
H_handleDeleteConfirm_direct(k) ==
  /\ variant = "H"
  /\ ~loading /\ ~dialogOpen /\ ~delOpen
  /\ Issue("DELETE", employees[k].email, BlankForm, "delete", <<>>)
  /\ last' = Ev("step", TRUE)
  /\ toast' = NoToast
  /\ UNCHANGED <<searchTerm, departmentFilter, details, variant, idScheme, remote, nextId,
                 employees, loading, error, dialogOpen, current, form, formErrors,
                 delOpen, delTarget, deletingId>>

\* handleDeleteConfirm(email, name), from the table's Delete button
H_handleDeleteConfirm(k) ==
  /\ variant = "H"
  /\ ~loading /\ ~dialogOpen /\ ~delOpen
  /\ delOpen' = TRUE
  /\ delTarget' = <<[BlankForm EXCEPT !.email = employees[k].email,
                                      !.name = employees[k].name]>>
  /\ UNCHANGED <<dialogOpen, current, form, deletingId>>
  /\ ViewUnchanged

\* AlertDialog onOpenChange(false): setDeleteDialog({ ...deleteDialog, open })
H_deleteCancel ==
  /\ variant = "H"
  /\ delOpen
  /\ delOpen' = FALSE
  /\ UNCHANGED <<dialogOpen, current, form, delTarget, deletingId>>
  /\ ViewUnchanged

\* handleDeleteExecute, up to the request; the AlertDialogAction closes the dialog
H_handleDeleteExecute ==
  /\ variant = "H"
  /\ delOpen
  /\ Issue("DELETE", delTarget[1].email, BlankForm, "delete", <<>>)
  /\ delOpen' = FALSE
  /\ last' = Ev("step", TRUE)
  /\ toast' = NoToast
  /\ UNCHANGED <<searchTerm, departmentFilter, details, variant, idScheme, remote, nextId, employees, loading, error,
                 dialogOpen, current, form, formErrors, delTarget, deletingId>>

\* ErrorBanner onClose: setError(null)
H_dismissError ==
  /\ variant = "H"
  /\ error # NoError
  /\ error' = NoError
  /\ last' = Ev("step", TRUE)
  /\ toast' = NoToast
  /\ UNCHANGED <<searchTerm, departmentFilter, details, variant, idScheme, remote, nextId, employees, loading,
                 dialogOpen, current, form, formErrors, delOpen, delTarget,
                 deletingId, reqs, nOps>>

H_Init ==
  /\ variant = "H"
  /\ idScheme = "serial"
  /\ delTarget = <<BlankForm>>
  /\ MountedInit

H_Next ==
  \/ Server
  \/ \E r \in reqs : \E how \in Failures : H_fetchEmployees(r, how)
  \/ \E r \in reqs : \E how \in Failures : H_addEmployee(r, how)
  \/ \E r \in reqs : \E how \in Failures : H_updateEmployee(r, how)
  \/ \E r \in reqs : \E how \in Failures : H_deleteEmployee(r, how)
  \/ H_AddClick
  \/ \E k \in 1..Len(employees) : H_onEdit(k)
  \/ H_onOpenChange
  \/ H_onCancel
  \/ \E f \in LooseInputs \cup {form} : H_handleSave(f)
  \/ \E k \in 1..Len(employees) : H_handleDeleteConfirm(k)
  \/ H_deleteCancel
  \/ H_handleDeleteExecute
  \/ H_dismissError

SpecH == H_Init /\ [][H_Next]_vars

----------------------------------------------------------------------------
(* The EmployeeTable component of src/src/components/EmployeeTable.tsx,     *)
(* used by M, T and L.                                                      *)

\* String.prototype.toLowerCase
Lower(c) == CASE c = "A" -> "a" [] c = "B" -> "b" [] c = "D" -> "d" [] OTHER -> c

ToLowerCase(s) == [i \in 1..Len(s) |-> Lower(s[i])]

\* String.prototype.includes
Includes(s, t) ==
  \E i \in 0..(Len(s) - Len(t)) : SubSeq(s, i + 1, i + Len(t)) = t

\* the predicate of filteredEmployees
Visible(employee) ==
  /\ \/ Includes(ToLowerCase(employee.name), ToLowerCase(searchTerm))
     \/ Includes(ToLowerCase(employee.email), ToLowerCase(searchTerm))
     \/ Includes(ToLowerCase(employee.role), ToLowerCase(searchTerm))
  /\ departmentFilter = "all" \/ employee.department = departmentFilter

\* filteredEmployees, the list the page hands to the table
filteredEmployees == SelectSeq(employees, Visible)

\* the isLoading prop the page passes to the table
TableLoading == IF variant = "L" THEN FALSE ELSE loading

\* the rows and the delete dialog are rendered only past the two early returns
TableShown == ~TableLoading /\ Len(filteredEmployees) > 0

DeleteDialogShown == delOpen /\ TableShown

\* EmployeeTable.handleDeleteClick(employee)
handleDeleteClick(k) ==
  /\ variant \in {"M", "T", "L"}
  /\ TableShown /\ ~dialogOpen /\ ~delOpen
  /\ Visible(employees[k])
  /\ deletingId # <<employees[k].id>>
  /\ delTarget' = <<employees[k]>>
  /\ delOpen' = TRUE
  /\ UNCHANGED <<dialogOpen, current, form, deletingId>>
  /\ ViewUnchanged

\* AlertDialog onOpenChange(false): setDeleteDialogOpen(false)
deleteDialogCancel ==
  /\ variant \in {"M", "T", "L"}
  /\ DeleteDialogShown
  /\ delOpen' = FALSE
  /\ UNCHANGED <<dialogOpen, current, form, delTarget, deletingId>>
  /\ ViewUnchanged

\* the key EmployeeTable.handleDeleteConfirm passes to onDelete
DeleteKey(employeeToDelete) == employeeToDelete.email

\* EmployeeTable.handleDeleteConfirm, but for the onDelete call
handleDeleteConfirm ==
  /\ DeleteDialogShown
  /\ delTarget # <<>>
  /\ deletingId' = <<delTarget[1].id>>
  /\ delOpen' = FALSE
  /\ delTarget' = <<>>

----------------------------------------------------------------------------
(* M: src/src/components/EmployeeManagement.tsx with                        *)
(*    src/src/components/EmployeeForm.tsx                                   *)

\* EmployeeForm.validateForm: the fields that get an error
validateForm(formData) ==
  (IF Trim(formData.name) = <<>> THEN {"name"} ELSE {})
  \cup (IF Trim(formData.email) = <<>> \/ ~EmailPattern(formData.email)
        THEN {"email"} ELSE {})
  \cup (IF formData.department = "" THEN {"department"} ELSE {})
  \cup (IF Trim(formData.role) = <<>> THEN {"role"} ELSE {})

\* the form data the EmployeeForm effect sets for its employee prop
FormOf(employee) ==
  IF employee = <<>> THEN BlankForm ELSE WithId(employee[1], NoId)

\* error instanceof Error ? error.message : ..., for a failed write:
\* errorData.message of the body, or what response.json() or fetch threw
M_message(how) ==
  CASE how = "net" -> <<"Failed to fetch">>
    [] how = "httpBody" -> <<"errorData.message">>
    [] how = "httpEmpty" -> <<"Unexpected end of JSON input">>

M_errorToast(how) == Toast("destructive", "Error", M_message(how))

\* fetchAllEmployees from the response on, and then the rest of the handler
\* that awaited it
M_fetchAllEmployees(r, how) ==
  /\ variant = "M"
  /\ r.method = "GET"
  /\ IF Failed(r) THEN UNCHANGED employees ELSE employees' = r.resp
  /\ loading' = FALSE
  /\ LET loadToast == IF Failed(r)
                      THEN Toast("destructive", "Error", <<"Failed to load employee data.">>)
                      ELSE NoToast
     IN CASE r.origin = "mount" ->
               /\ toast' = loadToast
               /\ last' = EvHow(EvLoad("load", ~Failed(r), ~Failed(r)), r, how)
               /\ UNCHANGED <<dialogOpen, current, form, formErrors>>
          [] r.origin = "add" ->
               /\ dialogOpen' = FALSE
               /\ form' = FormOf(current)
               /\ formErrors' = {}
               /\ toast' = loadToast \o Toast("default", "Employee Added", r.body.name)
               /\ last' = EvHow(EvLoad("add", TRUE, ~Failed(r)), r, how)
               /\ UNCHANGED current
          [] r.origin = "edit" ->
               /\ current' = <<>>
               /\ dialogOpen' = FALSE
               /\ form' = BlankForm
               /\ formErrors' = {}
               /\ toast' = loadToast \o Toast("default", "Employee Updated", r.body.name)
               /\ last' = EvHow(EvLoad("update", TRUE, ~Failed(r)), r, how)
          [] r.origin = "delete" ->
               /\ toast' = loadToast \o Toast("destructive", "Employee Deleted", r.body.name)
               /\ last' = EvHow(EvLoad("delete", TRUE, ~Failed(r)), r, how)
               /\ UNCHANGED <<dialogOpen, current, form, formErrors>>
  /\ reqs' = reqs \ {r}
  /\ UNCHANGED <<searchTerm, departmentFilter, details, variant, idScheme, remote, nextId, error, delOpen, delTarget,
                 deletingId, nOps>>

\* handleAddEmployee / handleEditEmployee from the response to the POST / PUT on
M_handleWrite(r, how) ==
  /\ variant = "M"
  /\ r.method \in {"POST", "PUT"}
  /\ IF Failed(r)
     THEN /\ toast' = M_errorToast(how)
          /\ loading' = FALSE
          /\ reqs' = reqs \ {r}
          /\ nOps' = nOps
          /\ last' = EvHow(Ev(IF r.method = "POST" THEN "add" ELSE "update", FALSE), r, how)
     ELSE /\ toast' = NoToast
          /\ loading' = TRUE
          /\ Reissue(r, "GET", <<>>, r.body, r.origin, <<>>)
          /\ last' = EvHow(Ev("step", TRUE), r, how)
  /\ UNCHANGED <<searchTerm, departmentFilter, details, variant, idScheme, remote, nextId, employees, error, dialogOpen,
                 current, form, formErrors, delOpen, delTarget, deletingId>>

\* handleDeleteEmployee from the response to the DELETE on
M_handleDelete(r, how) ==
  /\ variant = "M"
  /\ r.method = "DELETE"
  /\ IF Failed(r)
     THEN /\ toast' = M_errorToast(how)
          /\ reqs' = reqs \ {r}
          /\ nOps' = nOps
          /\ last' = EvHow(Ev("delete", FALSE), r, how)
          /\ UNCHANGED loading
     ELSE /\ toast' = NoToast
          /\ loading' = TRUE
          /\ Reissue(r, "GET", <<>>, r.body, "delete", <<>>)
          /\ last' = EvHow(Ev("step", TRUE), r, how)
  /\ UNCHANGED <<searchTerm, departmentFilter, details, variant, idScheme, remote, nextId, employees, error, dialogOpen,
                 current, form, formErrors, delOpen, delTarget, deletingId>>

\* the form submitting although a request is pending (button never disabled)
M_handleSubmit_always(f) ==
  /\ variant = "M"
  /\ dialogOpen
  /\ formErrors' = validateForm(f)
  /\ IF validateForm(f) = {}
     THEN /\ loading' = TRUE
          /\ IF current # <<>>
             THEN Issue("PUT", current[1].email, f, "edit", <<>>)
             ELSE Issue("POST", <<>>, f, "add", <<>>)
     ELSE UNCHANGED <<loading, reqs, nOps>>
  /\ last' = Ev("submit", validateForm(f) = {})
  /\ toast' = NoToast
  /\ UNCHANGED <<searchTerm, departmentFilter, details, variant, idScheme, remote, nextId, employees, error, dialogOpen,
                 current, form, delOpen, delTarget, deletingId>>

\* EmployeeForm.handleSubmit on the data the user typed, and the start of
\* handleAddEmployee / handleEditEmployee when it validates
M_handleSubmit(f) ==
  /\ variant = "M"
  /\ dialogOpen /\ ~loading
  /\ formErrors' = validateForm(f)
  /\ IF validateForm(f) = {}
     THEN /\ loading' = TRUE
          /\ IF current # <<>>
             THEN Issue("PUT", current[1].email, f, "edit", <<>>)
             ELSE Issue("POST", <<>>, f, "add", <<>>)
     ELSE UNCHANGED <<loading, reqs, nOps>>
  /\ last' = Ev("submit", validateForm(f) = {})
  /\ toast' = NoToast
  /\ UNCHANGED <<searchTerm, departmentFilter, details, variant, idScheme, remote, nextId, employees, error, dialogOpen,
                 current, form, delOpen, delTarget, deletingId>>

\* openAddForm
M_openAddForm ==
  /\ variant = "M"
  /\ ~dialogOpen /\ ~DeleteDialogShown
  /\ current' = <<>>
  /\ dialogOpen' = TRUE
  /\ form' = BlankForm
  /\ UNCHANGED <<delOpen, delTarget, deletingId>>
  /\ ViewUnchanged

\* openEditForm(employee), from a row's edit button
M_openEditForm(k) ==
  /\ variant = "M"
  /\ TableShown /\ ~dialogOpen /\ ~delOpen
  /\ Visible(employees[k])
  /\ current' = <<employees[k]>>
  /\ dialogOpen' = TRUE
  /\ form' = FormOf(current')
  /\ UNCHANGED <<delOpen, delTarget, deletingId>>
  /\ ViewUnchanged

\* closeForm
M_closeForm ==
  /\ variant = "M"
  /\ dialogOpen
  /\ dialogOpen' = FALSE
  /\ current' = <<>>
  /\ form' = BlankForm
  /\ toast' = NoToast
  /\ last' = Ev("step", TRUE)
  /\ formErrors' = {}
  /\ UNCHANGED <<searchTerm, departmentFilter, details, variant, idScheme, remote, nextId, employees, loading, error,
                 delOpen, delTarget, deletingId, reqs, nOps>>

\* what the user can type in the search box
SearchTerms == {<<>>, <<"D">>}

\* the values of the department select the user picks from
DepartmentFilters == {"all", "Design"}

\* the search box storing the filtered list back into the collection
M_setSearchTerm_filtering(t) ==
  /\ variant = "M"
  /\ ~dialogOpen /\ ~DeleteDialogShown
  /\ t # searchTerm
  /\ searchTerm' = t
  /\ employees' =
       SelectSeq(employees,
                 LAMBDA e : \/ Includes(ToLowerCase(e.name), ToLowerCase(t))
                            \/ Includes(ToLowerCase(e.email), ToLowerCase(t))
                            \/ Includes(ToLowerCase(e.role), ToLowerCase(t)))
  /\ toast' = NoToast
  /\ last' = Ev("step", TRUE)
  /\ UNCHANGED <<departmentFilter, details, variant, idScheme, remote, nextId,
                 loading, error, dialogOpen, current, form, formErrors, delOpen,
                 delTarget, deletingId, reqs, nOps>>

\* setSearchTerm(e.target.value)
M_setSearchTerm(t) ==
  /\ variant = "M"
  /\ ~dialogOpen /\ ~DeleteDialogShown
  /\ t # searchTerm
  /\ searchTerm' = t
  /\ toast' = NoToast
  /\ last' = Ev("step", TRUE)
  /\ UNCHANGED <<departmentFilter, details, variant, idScheme, remote, nextId, employees,
                 loading, error, dialogOpen, current, form, formErrors, delOpen,
                 delTarget, deletingId, reqs, nOps>>

\* setDepartmentFilter(value)
M_setDepartmentFilter(d) ==
  /\ variant = "M"
  /\ ~dialogOpen /\ ~DeleteDialogShown
  /\ d # departmentFilter
  /\ departmentFilter' = d
  /\ toast' = NoToast
  /\ last' = Ev("step", TRUE)
  /\ UNCHANGED <<searchTerm, details, variant, idScheme, remote, nextId, employees,
                 loading, error, dialogOpen, current, form, formErrors, delOpen,
                 delTarget, deletingId, reqs, nOps>>

\* the record handleDeleteEmployee(employeeId) looks up
M_employeeToDelete(employeeId) == FindById(employees, employeeId)

\* EmployeeTable.handleDeleteConfirm -> handleDeleteEmployee(key), up to the request
M_handleDeleteConfirm ==
  /\ variant = "M"
  /\ handleDeleteConfirm
  /\ LET found == M_employeeToDelete(DeleteKey(delTarget[1]))
     IN IF found = <<>>
        THEN /\ toast' = Toast("destructive", "Error", <<"Employee not found in local state.">>)
             /\ last' = Ev("notfound", FALSE)
             /\ UNCHANGED <<reqs, nOps>>
        ELSE /\ Issue("DELETE", found[1].email, found[1], "delete", <<>>)
             /\ toast' = NoToast
             /\ last' = Ev("step", TRUE)
  /\ UNCHANGED <<searchTerm, departmentFilter, details, variant, idScheme, remote, nextId, employees, loading, error,
                 dialogOpen, current, form, formErrors>>

M_Init ==
  /\ variant = "M"
  /\ idScheme \in {"serial", "email"}
  /\ delTarget = <<>>
  /\ MountedInit

M_Next ==
  \/ Server
  \/ \E r \in reqs : \E how \in Failures : M_fetchAllEmployees(r, how)
  \/ \E r \in reqs : \E how \in Failures : M_handleWrite(r, how)
  \/ \E r \in reqs : \E how \in Failures : M_handleDelete(r, how)
  \/ \E f \in FormInputs \cup {form} : M_handleSubmit(f)
  \/ M_openAddForm
  \/ \E k \in 1..Len(employees) : M_openEditForm(k)
  \/ M_closeForm
  \/ \E t \in SearchTerms : M_setSearchTerm(t)
  \/ \E d \in DepartmentFilters : M_setDepartmentFilter(d)
  \/ \E k \in 1..Len(employees) : handleDeleteClick(k)
  \/ deleteDialogCancel
  \/ M_handleDeleteConfirm

SpecM == M_Init /\ [][M_Next]_vars

----------------------------------------------------------------------------
(* T: useEmployees, EmployeeForm and App of                                 *)
(*    src/src/components/EmployeeTable.tsx                                  *)

\* <Input type="email">: one @, a local part and dot-separated labels
HtmlEmail(s) ==
  \E i \in 1..Len(s) :
    /\ s[i] = "@"
    /\ NoSpaceAt(SubSeq(s, 1, i - 1))
    /\ NoSpaceAt(SubSeq(s, i + 1, Len(s)))
    /\ s[i + 1] # "." /\ s[Len(s)] # "."

\* the form's required fields and its email input let the submit event through
T_required(formData) ==
  /\ formData.name # <<>>
  /\ formData.email # <<>> /\ HtmlEmail(formData.email)
  /\ formData.department # ""
  /\ formData.role # <<>>

\* e.message in the hook's catch blocks
T_message(what, how) ==
  CASE how = "net" -> <<"Failed to fetch">>
    [] how = "httpBody" -> <<what>>
    [] how = "httpEmpty" -> <<what>>

\* fetchEmployees emptying the list when the fetch fails
T_fetchEmployees_reset(r, how) ==
  /\ variant = "T"
  /\ r.method = "GET"
  /\ IF Failed(r)
     THEN /\ error' = T_message("Failed to fetch employees", how)
          /\ employees' = <<>>
     ELSE /\ employees' = r.resp
          /\ UNCHANGED error
  /\ loading' = FALSE
  /\ toast' = NoToast
  /\ reqs' = reqs \ {r}
  /\ last' = EvHow(EvLoad("load", ~Failed(r), ~Failed(r)), r, how)
  /\ UNCHANGED <<searchTerm, departmentFilter, details, variant, idScheme, remote, nextId, dialogOpen, current, form,
                 formErrors, delOpen, delTarget, deletingId, nOps>>

\* useEmployees.fetchEmployees, from the response on
T_fetchEmployees(r, how) ==
  /\ variant = "T"
  /\ r.method = "GET"
  /\ IF Failed(r)
     THEN /\ error' = T_message("Failed to fetch employees", how)
          /\ UNCHANGED employees
     ELSE /\ employees' = r.resp
          /\ UNCHANGED error
  /\ loading' = FALSE
  /\ toast' = NoToast
  /\ reqs' = reqs \ {r}
  /\ last' = EvHow(EvLoad("load", ~Failed(r), ~Failed(r)), r, how)
  /\ UNCHANGED <<searchTerm, departmentFilter, details, variant, idScheme, remote, nextId, dialogOpen, current, form,
                 formErrors, delOpen, delTarget, deletingId, nOps>>

\* the operation a request belongs to
OpOf(r) ==
  CASE r.method = "POST" -> "add"
    [] r.method = "PUT" -> "update"
    [] r.method = "DELETE" -> "delete"
    [] r.method = "GET" -> "load"

\* useEmployees.addEmployee / updateEmployee / deleteEmployee, from the
\* response on: fetchEmployees() is called and not awaited
T_write(r, how) ==
  /\ variant = "T"
  /\ r.method \in {"POST", "PUT", "DELETE"}
  /\ IF Failed(r)
     THEN /\ error' = T_message(CASE r.method = "POST" -> "Failed to add employee"
                                  [] r.method = "PUT" -> "Failed to update employee"
                                  [] r.method = "DELETE" -> "Failed to delete employee",
                                how)
          /\ reqs' = reqs \ {r}
          /\ nOps' = nOps
          /\ UNCHANGED loading
     ELSE /\ loading' = TRUE
          /\ Reissue(r, "GET", <<>>, BlankForm, "refetch", <<>>)
          /\ UNCHANGED error
  /\ toast' = NoToast
  /\ last' = EvHow(Ev(OpOf(r), ~Failed(r)), r, how)
  /\ UNCHANGED <<searchTerm, departmentFilter, details, variant, idScheme, remote, nextId, employees, dialogOpen,
                 current, form, formErrors, delOpen, delTarget, deletingId>>

\* App.openDialog(), from the Add Employee button
T_openDialog ==
  /\ variant = "T"
  /\ ~dialogOpen /\ ~DeleteDialogShown
  /\ current' = <<>>
  /\ dialogOpen' = TRUE
  /\ form' = BlankForm
  /\ UNCHANGED <<delOpen, delTarget, deletingId>>
  /\ ViewUnchanged

\* App.openDialog(emp), the table's onEdit
T_onEdit(k) ==
  /\ variant = "T"
  /\ TableShown /\ ~dialogOpen /\ ~delOpen
  /\ Visible(employees[k])
  /\ current' = <<employees[k]>>
  /\ dialogOpen' = TRUE
  /\ form' = employees[k]
  /\ UNCHANGED <<delOpen, delTarget, deletingId>>
  /\ ViewUnchanged

\* Dialog onOpenChange(false) and the form's onCancel: setDialogOpen(false)
T_closeDialog ==
  /\ variant = "T"
  /\ dialogOpen
  /\ dialogOpen' = FALSE
  /\ form' = BlankForm
  /\ UNCHANGED <<current, delOpen, delTarget, deletingId>>
  /\ ViewUnchanged

\* EmployeeForm.handleSubmit on what the user typed -> App.saveEmployee
T_saveEmployee(f) ==
  /\ variant = "T"
  /\ dialogOpen
  /\ T_required(f)
  /\ LET emp == WithId(f, form.id)
     IN /\ IF Truthy(emp.id)
           THEN Issue("PUT", emp.email, emp, "save", <<>>)
           ELSE Issue("POST", <<>>, emp, "save", <<>>)
        /\ last' = Ev("submit", TRUE)
  /\ dialogOpen' = FALSE
  /\ form' = BlankForm
  /\ toast' = NoToast
  /\ UNCHANGED <<searchTerm, departmentFilter, details, variant, idScheme, remote, nextId, employees, loading, error,
                 current, formErrors, delOpen, delTarget, deletingId>>

\* EmployeeTable.handleDeleteConfirm -> useEmployees.deleteEmployee(key)
T_handleDeleteConfirm ==
  /\ variant = "T"
  /\ handleDeleteConfirm
  /\ Issue("DELETE", DeleteKey(delTarget[1]), BlankForm, "delete", <<>>)
  /\ toast' = NoToast
  /\ last' = Ev("step", TRUE)
  /\ UNCHANGED <<searchTerm, departmentFilter, details, variant, idScheme, remote, nextId, employees, loading, error,
                 dialogOpen, current, form, formErrors>>

T_Init ==
  /\ variant = "T"
  /\ idScheme = "serial"
  /\ delTarget = <<>>
  /\ MountedInit

T_Next ==
  \/ Server
  \/ \E r \in reqs : \E how \in Failures : T_fetchEmployees(r, how)
  \/ \E r \in reqs : \E how \in Failures : T_write(r, how)
  \/ T_openDialog
  \/ \E k \in 1..Len(employees) : T_onEdit(k)
  \/ T_closeDialog
  \/ \E f \in LooseInputs \cup {form} : T_saveEmployee(f)
  \/ \E k \in 1..Len(employees) : handleDeleteClick(k)
  \/ deleteDialogCancel
  \/ T_handleDeleteConfirm

SpecT == T_Init /\ [][T_Next]_vars

----------------------------------------------------------------------------
(* L: src/unnamed/part_000, the mock-data EmployeeManagement, with the      *)
(*    EmployeeForm and EmployeeTable components it imports.  The mock       *)
(*    records' long strings are shortened.                                  *)

E3 == <<"e", "@", "b", ".", "c">>

E4 == <<"f", "@", "b", ".", "c">>

MockEmployee(n, e, d) ==
  [id |-> IdStr(n), name |-> NameA, email |-> e, department |-> d, role |-> RoleR]

initialEmployees ==
  << MockEmployee(1, E1, "Engineering"), MockEmployee(2, E2, "Design"),
     MockEmployee(3, E3, "Product"), MockEmployee(4, E4, "Marketing") >>

\* the clock reading when the page mounts: past every mock id
FirstNow == Len(initialEmployees) + 1

\* handleAddEmployee / handleEditEmployee / handleDeleteEmployee once their
\* timer has fired
L_afterDelay(r) ==
  /\ variant = "L"
  /\ r.method = "TIMER"
  /\ CASE r.origin = "add" ->
            /\ r.key # IdStr(nextId)
            /\ employees' = <<WithId(r.body, IdStr(nextId))>> \o employees
            /\ UNCHANGED nextId
            /\ dialogOpen' = FALSE
            /\ form' = FormOf(current)
            /\ formErrors' = {}
            /\ loading' = FALSE
            /\ toast' = Toast("default", "Employee Added", r.body.name)
            /\ last' = Ev("add", TRUE)
            /\ UNCHANGED current
       [] r.origin = "edit" ->
            /\ employees' = [k \in 1..Len(employees) |->
                               IF employees[k].id = r.ctx[1].id
                               THEN WithId(r.body, r.ctx[1].id) ELSE employees[k]]
            /\ current' = <<>>
            /\ dialogOpen' = FALSE
            /\ form' = BlankForm
            /\ formErrors' = {}
            /\ loading' = FALSE
            /\ toast' = Toast("default", "Employee Updated", r.body.name)
            /\ last' = Ev("update", TRUE)
            /\ UNCHANGED nextId
       [] r.origin = "delete" ->
            /\ employees' = SelectSeq(employees, LAMBDA emp : emp.id # r.key)
            /\ toast' = Toast("destructive", "Employee Deleted", r.body.name)
            /\ last' = Ev("delete", TRUE)
            /\ UNCHANGED <<nextId, current, dialogOpen, form, formErrors, loading>>
  /\ reqs' = reqs \ {r}
  /\ UNCHANGED <<searchTerm, departmentFilter, details, variant, idScheme, remote, error, delOpen, delTarget,
                 deletingId, nOps>>

\* the form submitting although an operation is pending (button never disabled)
L_handleSubmit_always(f) ==
  /\ variant = "L"
  /\ dialogOpen
  /\ formErrors' = validateForm(f)
  /\ IF validateForm(f) = {}
     THEN /\ loading' = TRUE
          /\ IF current # <<>>
             THEN Issue("TIMER", <<>>, f, "edit", current)
             ELSE Issue("TIMER", IdStr(nextId), f, "add", <<>>)
     ELSE UNCHANGED <<loading, reqs, nOps>>
  /\ last' = Ev("submit", validateForm(f) = {})
  /\ toast' = NoToast
  /\ UNCHANGED <<searchTerm, departmentFilter, details, variant, idScheme, remote, nextId, employees, error, dialogOpen,
                 current, form, delOpen, delTarget, deletingId>>

\* EmployeeForm.handleSubmit on the data the user typed, and the start of
\* handleAddEmployee / handleEditEmployee when it validates
L_handleSubmit(f) ==
  /\ variant = "L"
  /\ dialogOpen /\ ~loading
  /\ formErrors' = validateForm(f)
  /\ IF validateForm(f) = {}
     THEN /\ loading' = TRUE
          /\ IF current # <<>>
             THEN Issue("TIMER", <<>>, f, "edit", current)
             ELSE Issue("TIMER", IdStr(nextId), f, "add", <<>>)
     ELSE UNCHANGED <<loading, reqs, nOps>>
  /\ last' = Ev("submit", validateForm(f) = {})
  /\ toast' = NoToast
  /\ UNCHANGED <<searchTerm, departmentFilter, details, variant, idScheme, remote, nextId, employees, error, dialogOpen,
                 current, form, delOpen, delTarget, deletingId>>

\* openAddForm
L_openAddForm ==
  /\ variant = "L"
  /\ ~dialogOpen /\ ~DeleteDialogShown
  /\ current' = <<>>
  /\ dialogOpen' = TRUE
  /\ form' = BlankForm
  /\ UNCHANGED <<delOpen, delTarget, deletingId>>
  /\ ViewUnchanged

\* openEditForm(employee)
L_openEditForm(k) ==
  /\ variant = "L"
  /\ TableShown /\ ~dialogOpen /\ ~delOpen
  /\ Visible(employees[k])
  /\ current' = <<employees[k]>>
  /\ dialogOpen' = TRUE
  /\ form' = FormOf(current')
  /\ UNCHANGED <<delOpen, delTarget, deletingId>>
  /\ ViewUnchanged

\* closeForm
L_closeForm ==
  /\ variant = "L"
  /\ dialogOpen
  /\ dialogOpen' = FALSE
  /\ current' = <<>>
  /\ form' = BlankForm
  /\ toast' = NoToast
  /\ last' = Ev("step", TRUE)
  /\ formErrors' = {}
  /\ UNCHANGED <<searchTerm, departmentFilter, details, variant, idScheme, remote, nextId, employees, loading, error,
                 delOpen, delTarget, deletingId, reqs, nOps>>

\* the employee handleDeleteEmployee(employeeId) names in its toast
L_employee(employeeId) == FindById(employees, employeeId)

\* EmployeeTable.handleDeleteConfirm -> handleDeleteEmployee(key), up to the timer
L_handleDeleteConfirm ==
  /\ variant = "L"
  /\ handleDeleteConfirm
  /\ LET key == DeleteKey(delTarget[1])
         found == L_employee(key)
     IN Issue("TIMER", key, IF found = <<>> THEN BlankForm ELSE found[1], "delete", <<>>)
  /\ toast' = NoToast
  /\ last' = Ev("step", TRUE)
  /\ UNCHANGED <<searchTerm, departmentFilter, details, variant, idScheme, remote, nextId, employees, loading, error,
                 dialogOpen, current, form, formErrors>>

L_Init ==
  /\ details = <<>>
  /\ variant = "L"
  /\ idScheme = "serial"
  /\ remote = <<>>
  /\ nextId = FirstNow
  /\ employees = initialEmployees
  /\ loading = FALSE
  /\ error = NoError
  /\ toast = NoToast
  /\ dialogOpen = FALSE
  /\ current = <<>>
  /\ form = BlankForm
  /\ formErrors = {}
  /\ delOpen = FALSE
  /\ delTarget = <<>>
  /\ deletingId = <<>>
  /\ searchTerm = <<>>
  /\ departmentFilter = "all"
  /\ reqs = {}
  /\ nOps = 0
  /\ last = Ev("init", TRUE)

\* the clock read by Date.now() moves on
L_tick ==
  /\ variant = "L"
  /\ nextId < MaxNow
  /\ nextId' = nextId + 1
  /\ UNCHANGED <<details, variant, idScheme, remote, employees, loading, error, toast,
                 dialogOpen, current, form, formErrors, delOpen, delTarget,
                 deletingId, searchTerm, departmentFilter, reqs, nOps, last>>

L_Next ==
  \/ L_tick
  \/ \E r \in reqs : L_afterDelay(r)
  \/ \E f \in FormInputs \cup {form} : L_handleSubmit(f)
  \/ L_openAddForm
  \/ \E k \in 1..Len(employees) : L_openEditForm(k)
  \/ L_closeForm
  \/ \E k \in 1..Len(employees) : handleDeleteClick(k)
  \/ deleteDialogCancel
  \/ L_handleDeleteConfirm

SpecL == L_Init /\ [][L_Next]_vars

----------------------------------------------------------------------------
(* The three stores that talk to the remote service, side by side.          *)

Net_Init == H_Init \/ M_Init \/ T_Init

Net_Next == H_Next \/ M_Next \/ T_Next

SpecNet == Net_Init /\ [][Net_Next]_vars

\* a response, or the failure of a request, reaches the page
Resolve ==
  \E r \in reqs : \E how \in Failures :
    \/ H_fetchEmployees(r, how) \/ H_addEmployee(r, how)
    \/ H_updateEmployee(r, how) \/ H_deleteEmployee(r, how)
    \/ M_fetchAllEmployees(r, how) \/ M_handleWrite(r, how) \/ M_handleDelete(r, how)
    \/ T_fetchEmployees(r, how) \/ T_write(r, how)

\* the three pages when every request issued is eventually resolved
SpecNetLive == Net_Init /\ [][Net_Next]_vars /\ WF_vars(Resolve)

(* part_001 and EmployeeManagement.tsx, the two pages that report every     *)
(* failed write with a toast.                                               *)

HM_Init == H_Init \/ M_Init

HM_Next == H_Next \/ M_Next

SpecHM == HM_Init /\ [][HM_Next]_vars

\* the two pages that pass the confirmed email straight to the DELETE call
HT_Init == H_Init \/ T_Init

HT_Next == H_Next \/ T_Next

SpecHT == HT_Init /\ [][HT_Next]_vars

-----------------------------------------------------------------------------
(* The search controls of the three pages that filter the list, over a      *)
(* collection that has been loaded                                          *)

\* part_001's filteredEmployees: name or role
H_filteredEmployees ==
  SelectSeq(employees,
            LAMBDA emp : \/ Includes(ToLowerCase(emp.name), ToLowerCase(searchTerm))
                         \/ Includes(ToLowerCase(emp.role), ToLowerCase(searchTerm)))

\* the list each page hands to its table
Displayed == IF variant = "H" THEN H_filteredEmployees ELSE filteredEmployees

\* the search terms typed: none, one found in an email only, one found in a name
ViewTerms == SearchTerms \cup {<<"A">>}

\* part_001: setSearchTerm(e.target.value)
H_setSearchTerm(t) ==
  /\ variant = "H"
  /\ t # searchTerm
  /\ searchTerm' = t
  /\ toast' = NoToast
  /\ last' = Ev("step", TRUE)
  /\ UNCHANGED <<departmentFilter, details, variant, idScheme, remote, nextId, employees,
                 loading, error, dialogOpen, current, form, formErrors, delOpen,
                 delTarget, deletingId, reqs, nOps>>

\* part_000: setSearchTerm(e.target.value)
L_setSearchTerm(t) ==
  /\ variant = "L"
  /\ t # searchTerm
  /\ searchTerm' = t
  /\ toast' = NoToast
  /\ last' = Ev("step", TRUE)
  /\ UNCHANGED <<departmentFilter, details, variant, idScheme, remote, nextId, employees,
                 loading, error, dialogOpen, current, form, formErrors, delOpen,
                 delTarget, deletingId, reqs, nOps>>

\* part_000: setDepartmentFilter(value)
L_setDepartmentFilter(d) ==
  /\ variant = "L"
  /\ d # departmentFilter
  /\ departmentFilter' = d
  /\ toast' = NoToast
  /\ last' = Ev("step", TRUE)
  /\ UNCHANGED <<searchTerm, details, variant, idScheme, remote, nextId, employees,
                 loading, error, dialogOpen, current, form, formErrors, delOpen,
                 delTarget, deletingId, reqs, nOps>>

\* records a loaded collection can hold
ViewRecords ==
  { Stored(IF e = E1 THEN IdStr(1) ELSE IdStr(2),
           [Good(n, e) EXCEPT !.department = d]) :
      n \in {NameA, NameB}, e \in {E1, E2}, d \in {"Engineering", "Design"} }

\* loaded collections of up to two records with distinct emails
ViewCollections ==
  {<<>>} \cup {<<x>> : x \in ViewRecords}
         \cup {c \in {<<x, y>> : x \in ViewRecords, y \in ViewRecords} :
                 c[1].email # c[2].email}

View_Init ==
  /\ details = <<>>
  /\ variant \in {"H", "M", "L"}
  /\ idScheme = "serial"
  /\ employees \in ViewCollections
  /\ remote = IF variant = "L" THEN <<>> ELSE employees
  /\ nextId = 3
  /\ loading = FALSE
  /\ error = NoError
  /\ toast = NoToast
  /\ dialogOpen = FALSE
  /\ current = <<>>
  /\ form = BlankForm
  /\ formErrors = {}
  /\ delOpen = FALSE
  /\ delTarget = IF variant = "H" THEN <<BlankForm>> ELSE <<>>
  /\ deletingId = <<>>
  /\ searchTerm = <<>>
  /\ departmentFilter = "all"
  /\ reqs = {}
  /\ nOps = 0
  /\ last = Ev("init", TRUE)

View_Next ==
  \/ \E t \in ViewTerms : H_setSearchTerm(t)
  \/ \E t \in ViewTerms : M_setSearchTerm(t)
  \/ \E d \in DepartmentFilters : M_setDepartmentFilter(d)
  \/ \E t \in ViewTerms : L_setSearchTerm(t)
  \/ \E d \in DepartmentFilters : L_setDepartmentFilter(d)

SpecView == View_Init /\ [][View_Next]_vars

----------------------------------------------------------------------------
(* src/pages/Dasboard.tsx: the dashboard page and its one mount-time fetch  *)

\* the fallback of localStorage.getItem('email') || ...
DefaultEmail == <<"e", "m", "i", "l", "y", ".", "c", "h", "e", "n", "@", "e", "x", "a", "m", "p", "l", "e", ".", "c", "o", "m">>

\* what localStorage holds under 'email': nothing, or the address of a login
StoredEmails == {<<>>, E1}

\* const email = localStorage.getItem('email') || 'emily.chen@example.com'
D_email(stored) == IF Truthy(stored) THEN stored ELSE DefaultEmail

DashCounts == 0..3

DashActivities == {<<>>, <<"x">>, <<"x", "y">>}

\* interface DashboardDetails
DashboardDetails(p, t, a) ==
  [projectsCompleted |-> p, tasksAssigned |-> t, recentActivity |-> a]

\* a 2xx body: whether res.json() resolves on it, and the value it gives
DashBody(parses, value) == [parses |-> parses, value |-> value]

\* a 2xx body that is not JSON: res.json() rejects on it
BadJson == DashBody(FALSE, <<>>)

\* what a 2xx response can carry: no JSON, JSON null, or a details object
DashBodies ==
  {BadJson}
    \cup {DashBody(TRUE, v) :
            v \in {<<>>} \cup {<<DashboardDetails(p, t, a)>> :
                                 p \in DashCounts, t \in DashCounts,
                                 a \in DashActivities}}

\* the message the catch block stores
D_message(how) ==
  CASE how = "net" -> <<"Failed to fetch">>
    [] how = "json" -> <<"Unexpected token">>
    [] OTHER -> <<"Failed to fetch dashboard data">>

\* the service answers the request with a 2xx response carrying body
D_respond(r, body) ==
  /\ variant = "D"
  /\ r.stage = "sent"
  /\ reqs' = Replace(r, [r EXCEPT !.stage = "ok", !.resp = body])
  /\ last' = Ev("step", TRUE)
  /\ toast' = NoToast
  /\ UNCHANGED <<details, variant, idScheme, remote, nextId, employees, loading,
                 error, dialogOpen, current, form, formErrors, delOpen,
                 delTarget, deletingId, searchTerm, departmentFilter, nOps>>

\* fetchDashboard without its finally block: setLoading(false) after
\* setDetails only
D_fetchDashboard_nofinally(r, how) ==
  /\ variant = "D"
  /\ r.method = "GET"
  /\ IF Failed(r)
     THEN /\ error' = D_message(how)
          /\ last' = EvHow(Ev("dashboard", FALSE), r, how)
          /\ UNCHANGED <<details, loading>>
     ELSE IF ~r.resp.parses
          THEN /\ error' = D_message("json")
               /\ last' = Ev("dashboard", FALSE)
               /\ UNCHANGED <<details, loading>>
          ELSE /\ details' = r.resp.value
               /\ loading' = FALSE
               /\ last' = Ev("dashboard", TRUE)
               /\ UNCHANGED error
  /\ reqs' = reqs \ {r}
  /\ toast' = NoToast
  /\ UNCHANGED <<variant, idScheme, remote, nextId, employees, dialogOpen,
                 current, form, formErrors, delOpen, delTarget, deletingId,
                 searchTerm, departmentFilter, nOps>>

\* fetchDashboard from the await on: the fetch rejects or answers non-2xx
\* (the request was not served), or answers 2xx with a body
D_fetchDashboard(r, how) ==
  /\ variant = "D"
  /\ r.method = "GET"
  /\ IF Failed(r)
     THEN /\ error' = D_message(how)
          /\ last' = EvHow(Ev("dashboard", FALSE), r, how)
          /\ UNCHANGED details
     ELSE IF ~r.resp.parses
          THEN /\ error' = D_message("json")
               /\ last' = Ev("dashboard", FALSE)
               /\ UNCHANGED details
          ELSE /\ details' = r.resp.value
               /\ last' = Ev("dashboard", TRUE)
               /\ UNCHANGED error
  /\ loading' = FALSE
  /\ reqs' = reqs \ {r}
  /\ toast' = NoToast
  /\ UNCHANGED <<variant, idScheme, remote, nextId, employees, dialogOpen,
                 current, form, formErrors, delOpen, delTarget, deletingId,
                 searchTerm, departmentFilter, nOps>>

\* which of the four returns of the component renders
D_screen ==
  CASE loading -> "loading"
    [] error # NoError -> "error"
    [] details = <<>> -> "empty"
    [] OTHER -> "dashboard"

D_Init ==
  /\ variant = "D"
  /\ idScheme = "serial"
  /\ details = <<>>
  /\ remote = <<>>
  /\ nextId = 1
  /\ employees = <<>>
  /\ loading = TRUE
  /\ error = NoError
  /\ toast = NoToast
  /\ dialogOpen = FALSE
  /\ current = <<>>
  /\ form = BlankForm
  /\ formErrors = {}
  /\ delOpen = FALSE
  /\ delTarget = <<>>
  /\ deletingId = <<>>
  /\ searchTerm = <<>>
  /\ departmentFilter = "all"
  /\ \E stored \in StoredEmails :
       reqs = {Req(0, "GET", D_email(stored), BlankForm, "dashboard", <<>>)}
  /\ nOps = 0
  /\ last = Ev("init", TRUE)

D_Next ==
  \/ \E r \in reqs : \E body \in DashBodies : D_respond(r, body)
  \/ \E r \in reqs : \E how \in Failures : D_fetchDashboard(r, how)

SpecD == D_Init /\ [][D_Next]_vars

----------------------------------------------------------------------------
(* Properties                                                               *)

\* the request r leaves the set in this step: it resolved and nothing was
\* issued in its place
Resolved(r) == r \in reqs /\ \A q \in reqs' : q.id # r.id

\* an error reached the user: the store's error message or an error toast
ErrorSurfaced ==
  \/ error # NoError
  \/ \E i \in 1..Len(toast) : toast[i].title \in {"Error", "Fetch Failed"}

\* how many entries of seq carry the email e
Count(seq, e) == Cardinality({k \in 1..Len(seq) : seq[k].email = e})

\* the form data passes the validation the store is specified to apply
\* (H's form has no department field)
WellFormed(f) ==
  /\ f.name # <<>>
  /\ f.email # <<>> /\ EmailPattern(f.email)
  /\ f.role # <<>>
  /\ variant # "H" => f.department # ""

\* C1: once a write (create, update or delete) has reported success and
\* nothing is in flight, the local collection equals the remote collection.
C1_NoStaleSuccess ==
  (reqs = {} /\ last.kind \in {"add", "update", "delete"} /\ last.ok)
    => employees = remote

\* C2: a load that succeeds replaces the local collection with exactly the
\* response of the service: its records in its order, nothing retained.
C2_LoadReplaces ==
  [][last'.load = "ok" =>
       \E r \in reqs : /\ Resolved(r) /\ r.method = "GET" /\ r.stage = "ok"
                       /\ employees' = r.resp]_vars

\* a reload after a confirmed delete returned the empty array and the list,
\* non-empty before, is empty
C2_Witness ==
  /\ last.load = "ok" /\ employees = <<>>
  /\ deletingId # <<>> /\ remote = <<>>

\* C3: when a load succeeds the store ends with loading false and the error
\* message cleared, whatever error an earlier operation had set.
C3_LoadClearsError == last.load = "ok" => (~loading /\ error = NoError)

\* C4: when a load fails an error is surfaced, the collection held before is
\* kept as it was, and loading ends false.
C4_LoadFailureKeeps ==
  [][last'.load = "fail" =>
       (employees' = employees /\ ~loading' /\ ErrorSurfaced')]_vars

\* a load failed while the store held records, and they are still there
C4_Witness == last.load = "fail" /\ Len(employees) > 0 /\ ~loading /\ ErrorSurfaced

\* C5: no create request is ever issued for form data with an empty name,
\* email, department or role or with a malformed email.
C5_CreateValidated == \A r \in reqs : r.method = "POST" => WellFormed(r.body)

\* C6: no update request is ever issued for form data with an empty name,
\* email, department or role or with a malformed email.
C6_UpdateValidated == \A r \in reqs : r.method = "PUT" => WellFormed(r.body)

\* C7: when an accepted create has completed with nothing else in flight, the
\* new record is in the local collection exactly once and every record held
\* before is still there.
C7_CreatedOnce ==
  [][(last'.kind = "add" /\ last'.ok /\ reqs' = {}) =>
       \A r \in reqs :
         Resolved(r) =>
           /\ Count(employees', r.body.email) = 1
           /\ \A k \in 1..Len(employees) :
                \E j \in 1..Len(employees') : employees'[j] = employees[k]]_vars

\* C8: a delete whose request fails leaves the collection as it was and
\* surfaces an error.
C8_FailedDeleteKeeps ==
  [][(last'.kind = "delete" /\ ~last'.ok) =>
       (employees' = employees /\ ErrorSurfaced')]_vars

\* a delete failed and the record is still listed
C8_Witness ==
  /\ last.kind = "delete" /\ ~last.ok
  /\ Len(employees) > 0 /\ ErrorSurfaced /\ nOps > 0

\* the email of the record a completing delete was confirmed for
DeleteTarget(r) == IF r.method = "GET" THEN r.body.email ELSE r.key

\* C9: when a delete completes with success the record matching the key is
\* gone from the local collection and the others are kept, in their order.
C9_DeleteRemoves ==
  [][(last'.kind = "delete" /\ last'.ok) =>
       \A r \in reqs :
         Resolved(r) =>
           employees' = SelectSeq(employees, LAMBDA e : e.email # DeleteTarget(r))]_vars

\* C10: confirming the deletion of a listed record issues a DELETE request
\* addressed to that record.
C10_DeleteKeyConsistent ==
  [][(DeleteDialogShown /\ delTarget # <<>> /\ delTarget' = <<>>) =>
       \E r \in reqs' \ reqs : r.method = "DELETE" /\ r.key = delTarget[1].email]_vars

\* the email an update that completes in this step was addressed to
UpdateKey(r) == IF r.method = "TIMER" THEN r.ctx[1].email ELSE r.key

\* C11: when an update by email completes with success, the list keeps its
\* length, one entry carries the key's email, and every entry but that one
\* is what it was before.
C11_UpdateFrame ==
  [][(last'.kind = "update" /\ last'.ok) =>
       \A r \in reqs :
         Resolved(r) =>
           /\ Len(employees') = Len(employees)
           /\ \E k \in 1..Len(employees) :
                /\ employees[k].email = UpdateKey(r)
                /\ \A j \in 1..Len(employees) :
                     j # k => employees'[j] = employees[j]]_vars

\* the request r is issued in this step by a user action
Issued(r) == r \in reqs' /\ \A q \in reqs : q.id # r.id

\* C12: an update request is addressed to the email under which the record
\* being edited is stored, whatever email the submitted form carries.
C12_UpdateRoutedByStoredEmail ==
  [][\A r \in reqs' :
       (Issued(r) /\ r.method = "PUT") =>
         (current # <<>> /\ r.key = current[1].email)]_vars

\* an error toast was raised in the step
ErrorToasted ==
  \E i \in 1..Len(toast) :
    toast[i].variant = "destructive" /\ toast[i].title = "Error"

\* C13: a create or update whose request fails raises an error and leaves
\* the local collection exactly as it was.
C13_FailedWriteKeeps ==
  [][(last'.kind \in {"add", "update"} /\ ~last'.ok) =>
       (employees' = employees /\ ErrorToasted')]_vars

\* a create or update failed while records were listed
C13_Witness ==
  /\ last.kind \in {"add", "update"} /\ ~last.ok
  /\ Len(employees) > 0 /\ ErrorToasted

\* the message the user is shown for the failure of the step: the text of
\* its error toast, or else the store's error
SurfacedText ==
  IF \E i \in 1..Len(toast) : toast[i].variant = "destructive"
  THEN toast[CHOOSE i \in 1..Len(toast) : toast[i].variant = "destructive"].text
  ELSE error

\* the message carries the part
Mentions(msg, part) == \E i \in 1..Len(msg) : msg[i] = part

\* C14: a non-2xx answer is surfaced as a failure whose message is the
\* response body when there is one and the status text otherwise.
C14_MessageFromResponse ==
  /\ last.how # "none" => ErrorSurfaced
  /\ last.how = "httpBody" =>
       (Mentions(SurfacedText, "body") \/ Mentions(SurfacedText, "errorData.message"))
  /\ last.how = "httpEmpty" => Mentions(SurfacedText, "statusText")

\* the error toasts and the success toasts raised in the step
ErrorToasts == {i \in 1..Len(toast) : toast[i].title \in {"Error", "Fetch Failed"}}

SuccessToasts ==
  {i \in 1..Len(toast) :
     toast[i].title \in {"Success", "Employee Added", "Employee Updated",
                         "Employee Deleted"}}

\* C15: a step in which a request of an operation fails issues no request,
\* reports the error once and reports no success.
C15_FailureReportedOnce ==
  [][last'.how # "none" =>
       /\ reqs' \subseteq reqs
       /\ IF variant = "T" THEN error' # NoError ELSE Cardinality(ErrorToasts') = 1
       /\ SuccessToasts' = {}]_vars

\* C16: no two entries of the local collection carry the same email.
C16_LocalEmailsUnique ==
  \A i, j \in 1..Len(employees) :
    i # j => employees[i].email # employees[j].email

\* C17: the collection changes only in a step in which a store call
\* resolves; opening or closing a dialog, searching, filtering and
\* dismissing the error leave it as it is.
C17_OnlyStoreWrites ==
  [][employees' # employees => \E r \in reqs : Resolved(r)]_vars

\* the user has searched while records were loaded, and they are all still
\* in the collection although a row is filtered out
C17_Witness ==
  /\ last.kind = "step" /\ searchTerm # <<>>
  /\ Len(employees) > Len(filteredEmployees)

\* C18: a DELETE request is issued only from the open confirmation dialog
\* and is addressed to the record the dialog was opened for; closing the
\* dialog without confirming issues nothing and leaves the collection alone.
C18_DeleteOnlyConfirmed ==
  [][/\ \A r \in reqs' :
          (Issued(r) /\ r.method = "DELETE") =>
            (delOpen /\ delTarget # <<>> /\ r.key = delTarget[1].email)
     /\ (delOpen /\ ~delOpen' /\ last'.kind = "step"
           /\ ~\E r \in reqs' : Issued(r)) =>
          (reqs' = reqs /\ employees' = employees)]_vars

\* a confirmed delete is on its way to the service for a listed record
C18_Witness ==
  \E r \in reqs :
    /\ r.method = "DELETE" /\ r.stage = "sent"
    /\ r.key \in Emails(employees) /\ ~delOpen

\* the create requests that have been issued and not yet resolved
PendingCreates == {r \in reqs : r.method = "POST"}

\* the create form is open while one of its requests is still pending, and
\* the user has an operation left
CreatePending ==
  /\ dialogOpen /\ current = <<>> /\ ~Truthy(form.id)
  /\ PendingCreates # {}
  /\ nOps < MaxOps

\* submitting the create form now issues one more create request
CanSubmitAgain ==
  ENABLED (/\ \E f \in FormInputs : H_handleSave(f) \/ M_handleSubmit(f)
           /\ \E r \in reqs' : r \notin reqs /\ r.method = "POST")

\* C19 as stated: on either page a create form with a request pending
\* accepts a second submission and issues a second create request.
C19_NoDeduplication == CreatePending => CanSubmitAgain

\* C19 as amended: part_001 accepts the second submission and issues a
\* second create request; EmployeeManagement.tsx sets isLoading when it
\* issues a create request and refuses submissions while isLoading is set.
C19_DeduplicatedOnlyByDisabledButton ==
  [][/\ (variant = "H" /\ CreatePending) => CanSubmitAgain
     /\ (variant = "M" /\ loading) => ~CanSubmitAgain
     /\ variant = "M" =>
          \A r \in reqs' : (Issued(r) /\ r.method = "POST") => (~loading /\ loading')]_vars

\* part_001 has two create requests with the same data pending at once
C19_Witness ==
  /\ variant = "H"
  /\ \E r, q \in PendingCreates : r.id # q.id /\ r.body = q.body /\ r.body.email = E2

\* C20: responses are applied in the order they arrive, whatever the order
\* the operations were started in.  When a write started earlier resolves
\* after a later operation has completed, part_001 patches the record with
\* the earlier write's response and the App page replaces the collection by
\* the earlier write's re-fetched list.
C20_EarlierWriteAppliedLast ==
  [][\A r \in reqs :
       (Resolved(r) /\ ~Failed(r) /\ LaterCompleted(r)) =>
         /\ (variant = "H" /\ r.method = "PUT") =>
              \A k \in 1..Len(employees) :
                employees[k].email = r.body.email => employees'[k] = r.resp[1]
         /\ (variant = "T" /\ r.method = "GET") => employees' = r.resp]_vars

\* part_001: the later update has completed and the collection shows it, as
\* the service does; the earlier update's response is still to be applied
C20_Witness ==
  /\ variant = "H"
  /\ employees = remote
  /\ \E r \in reqs :
       /\ reqs = {r} /\ r.id = 1 /\ nOps = 2
       /\ r.method = "PUT" /\ r.stage = "ok"
       /\ \E k \in 1..Len(employees) :
            employees[k].email = r.body.email /\ employees[k] # r.resp[1]

\* C21: every failure is reported through the one error channel and the
\* message can be dismissed: a shown error message has a dismiss control,
\* and a validation failure shows an error message like the other failures.
C21_ErrorsDismissible ==
  /\ error # NoError => ENABLED H_dismissError
  /\ formErrors # {} => ErrorSurfaced

\* the record matches the search and the department selection, as the claim
\* words it
Matches(e) ==
  /\ \/ Includes(ToLowerCase(e.name), ToLowerCase(searchTerm))
     \/ Includes(ToLowerCase(e.email), ToLowerCase(searchTerm))
     \/ Includes(ToLowerCase(e.role), ToLowerCase(searchTerm))
  /\ departmentFilter = "all" \/ e.department = departmentFilter

\* C22: the displayed list holds exactly the records of the collection that
\* match the search term in name, email or role and the selected department,
\* in the collection's order; with no term and 'all' it is the collection.
C22_DisplayedIsFilter ==
  /\ \A i \in 1..Len(Displayed) : Matches(Displayed[i])
  /\ \A k \in 1..Len(employees) :
       Matches(employees[k]) => \E i \in 1..Len(Displayed) : Displayed[i] = employees[k]
  /\ Len(Displayed) = Cardinality({k \in 1..Len(employees) : Matches(employees[k])})
  /\ \A i, j \in 1..Len(Displayed) :
       i < j => \E k, l \in 1..Len(employees) :
                  k < l /\ employees[k] = Displayed[i] /\ employees[l] = Displayed[j]
  /\ (searchTerm = <<>> /\ departmentFilter = "all") => Displayed = employees

\* the user clicks 'Add Employee' on one of the three pages
AddClick == H_AddClick \/ M_openAddForm \/ T_openDialog

\* the user clicks Edit on row k
EditClick(k) == H_onEdit(k) \/ M_openEditForm(k) \/ T_onEdit(k)

\* C23: 'Add Employee' always opens the dialog in create mode with a blank
\* form, Edit on a record always opens it on that record, and the request
\* Save issues is a create in create mode and an update of the edited record
\* in edit mode.
C23_SaveMatchesMode ==
  [][/\ ~ENABLED (AddClick /\ ~(current' = <<>> /\ form' = BlankForm))
     /\ \A k \in 1..Len(employees) :
          ~ENABLED (EditClick(k) /\ current' # <<employees[k]>>)
     /\ \A r \in reqs' :
          (Issued(r) /\ r.method \in {"POST", "PUT"}) =>
            IF current = <<>>
            THEN r.method = "POST"
            ELSE /\ r.method = "PUT"
                 /\ r.body.id = current[1].id \/ r.key = current[1].email]_vars

\* the records of a list
Records(seq) == {seq[i] : i \in 1..Len(seq)}

\* C24: a successful load that resolves after a later-started operation has
\* completed does not undo a write locally: what the collection and the
\* service agree on stays, and no record both have dropped comes back.
C24_LateLoadKeepsWrite ==
  [][\A r \in reqs :
       (Resolved(r) /\ r.method = "GET" /\ ~Failed(r) /\ LaterCompleted(r)) =>
         /\ Records(employees) \cap Records(remote) \subseteq Records(employees')
         /\ Records(employees') \subseteq Records(employees) \cup Records(remote)]_vars

\* the delete button of row k is disabled
DeleteDisabled(k) == deletingId = <<employees[k].id>>

\* C25: once no call is outstanding, every record still in the collection
\* has its delete button enabled: deletingId does not stay on a displayed
\* record after its delete call has completed.
C25_DeleteEnabledAgain ==
  reqs = {} => \A k \in 1..Len(employees) : ~DeleteDisabled(k)

\* C26: while a full-collection fetch is in flight the loading flag is true.
C26_LoadingWhileFetching ==
  (\E r \in reqs : r.method = "GET") => loading

\* C27: the loading flag starts true; whenever no request is in flight it is
\* false; and when every request is eventually resolved the store ends up
\* with loading false for good.
C27_LoadingSettles ==
  /\ loading = TRUE
  /\ [](reqs = {} => ~loading)
  /\ <>[](~loading)

\* every call has completed, the last one with a failure, and loading is off
C27_Witness ==
  /\ reqs = {} /\ nOps > 0
  /\ last.how # "none"
  /\ ~loading

\* C28: saving does not close the form dialog or drop the editing target by
\* itself, and a failed create or update leaves both as they are: the dialog
\* closes on account of a save only when the save succeeded.
C28_DialogStaysOnFailure ==
  [][/\ (\E r \in reqs' : Issued(r) /\ r.method \in {"POST", "PUT"}) =>
          (dialogOpen' /\ current' = current)
     /\ (last'.kind \in {"add", "update"} /\ ~last'.ok) =>
          (dialogOpen' = dialogOpen /\ current' = current)]_vars

\* C29: in the mock-data store no two records of the collection share an id:
\* the id an add takes from the clock is never one already in the collection.
C29_LocalIdsUnique ==
  variant = "L" =>
    \A i, j \in 1..Len(employees) : i # j => employees[i].id # employees[j].id

\* two records have been added, each with an id read from the clock
C29_Witness ==
  /\ variant = "L"
  /\ Len(employees) = Len(initialEmployees) + 2
  /\ reqs = {}

====
